---- MODULE Spec2Model ----
(***************************************************************************)
(* Xaxpy<T>::DoAxpy (src/routines/level1/xaxpy.cc): the host-side          *)
(* dispatch of the AXPY routine.  One invocation is a process that walks   *)
(* through the statements of DoAxpy; every call it makes on the backend    *)
(* (buffer-size query, program cache, kernel handle, SetArgument, enqueue, *)
(* queue Finish) is appended to the invocation's call log together with    *)
(* the outcome the backend chose for it.                                   *)
(***************************************************************************)
EXTENDS Integers, Sequences, FiniteSets, TLC

\* ---------------------------------------------------------------------------
\* Bounds of the model
\* ---------------------------------------------------------------------------
MaxN == 3
MaxElems == 3

\* Sample values of the remaining inputs.  Strides are positive: what the
\* validation does with a stride of 0 is not stated anywhere.
Offsets == {0, 1}
Incs == {1, 2}
Alphas == {2, 3}
TuneValues == {1, 2}

\* Invocations; a specification decides in Init which of them are started
Calls == {1, 2}

\* ---------------------------------------------------------------------------
\* Types of the program
\* ---------------------------------------------------------------------------
\* The element types the class is compiled for
Precisions == {"float", "double", "float2", "double2"}

\* sizeof(T)
SizeOf(T) ==
  CASE T = "float" -> 4
    [] T = "double" -> 8
    [] T = "float2" -> 8
    [] T = "double2" -> 16

\* Status codes DoAxpy names itself, and those of the validation module
StatusCodes == {"Success", "InvalidDimension", "InvalidBufferSize", "InvalidKernel"}

\* Statuses the enqueue operation may report: any code of the enumeration;
\* "KernelLaunchError" stands for the codes the enumeration leaves open
EnqueueStatuses == StatusCodes \cup {"KernelLaunchError"}

ErrorIn(s) == s # "Success"

VARIABLES
  pc,               \* position of each invocation in DoAxpy
  n, alpha,         \* arguments of the invocation
  x_buffer, x_offset, x_inc,
  y_buffer, y_offset, y_inc,
  precision,        \* the T of the Xaxpy<T> the invocation runs on
  db_,              \* tuning parameter set: WGS, WPT, VW
  status,           \* local variable status
  use_fast_kernel,  \* local variable use_fast_kernel
  kernel_name,      \* local variable kernel_name
  argidx,           \* number of SetArgument calls made so far
  result,           \* status returned to the caller, "none" while running
  escaped,          \* TRUE when an exception left DoAxpy
  log,              \* backend calls of the invocation, in order
  wide              \* an invocation with full-width size_t arguments

inputs == <<n, alpha, x_buffer, x_offset, x_inc, y_buffer, y_offset, y_inc, precision, db_,
            wide>>
locals == <<status, use_fast_kernel, kernel_name, argidx>>
vars == <<pc, inputs, locals, result, escaped, log>>

\* ---------------------------------------------------------------------------
\* Helpers of the routine base class and utilities
\* ---------------------------------------------------------------------------
\* Buffer<T>::GetSize: capacity in bytes
GetSize(buffer, T) == buffer.elems * SizeOf(T)

\* Validation of one vector operand
TestVector(len, buffer, offset, inc, data_size, T) ==
  IF len = 0 THEN "InvalidDimension"
  ELSE IF GetSize(buffer, T) < ((len - 1) * inc + 1 + offset) * data_size
       THEN "InvalidBufferSize"
       ELSE "Success"

IsMultiple(a, b) == (a \div b) * b = a

CeilDiv(x, y) == (x + y - 1) \div y

Ceil(x, y) == CeilDiv(x, y) * y

\* static_cast<int>(v) of a size_t: the value modulo 2^32, read as signed
IntMax == 2147483647

StaticCastInt(v) ==
  IF v >= 0 /\ v <= IntMax THEN v
  ELSE LET r == v % (2 * (IntMax + 1))
       IN IF r > IntMax THEN r - 2 * (IntMax + 1) ELSE r

\* ---------------------------------------------------------------------------
\* Full-width size_t values.  A value v below 2^64 is held as <<hi, lo>> with
\* v = hi * 2^16 + lo and 0 <= lo < 2^16; the values used stay far below
\* 2^64, so no size_t operation wraps.
\* ---------------------------------------------------------------------------
Limb == 256 * 256

Wide(v) == << v \div Limb, v % Limb >>

WideNorm(hi, lo) == << hi + (lo \div Limb), lo % Limb >>

WideAdd(a, b) == WideNorm(a[1] + b[1], a[2] + b[2])

\* a * k for a small k
WideMul(a, k) == WideNorm(a[1] * k, a[2] * k)

\* a - 1 for a > 0
WideDec(a) == IF a[2] > 0 THEN << a[1], a[2] - 1 >> ELSE << a[1] - 1, Limb - 1 >>

WideLess(a, b) == a[1] < b[1] \/ (a[1] = b[1] /\ a[2] < b[2])

\* a / k for a small k
WideDiv(a, k) == << a[1] \div k, ((a[1] % k) * Limb + a[2]) \div k >>

\* static_cast<int>(v) of a full-width size_t: the low 32 bits, read as signed
StaticCastIntWide(a) ==
  LET h == a[1] % Limb
  IN IF h >= Limb \div 2 THEN (h - Limb) * Limb + a[2] ELSE h * Limb + a[2]

\* The helpers of the routine on full-width values
GetSizeWide(elems, T) == WideMul(elems, SizeOf(T))

TestVectorWide(len, elems, offset, inc, data_size, T) ==
  IF len = Wide(0) THEN "InvalidDimension"
  ELSE IF WideLess(GetSizeWide(elems, T),
                   WideMul(WideAdd(WideAdd(WideMul(WideDec(len), inc), Wide(1)), offset),
                           data_size))
       THEN "InvalidBufferSize"
       ELSE "Success"

IsMultipleWide(a, b) == WideMul(WideDiv(a, b), b) = a

CeilDivWide(x, y) == WideDiv(WideAdd(x, Wide(y - 1)), y)

CeilWide(x, y) == WideMul(CeilDivWide(x, y), y)

\* ---------------------------------------------------------------------------
\* Values handed to the backend
\* ---------------------------------------------------------------------------
IntArg(v) == [kind |-> "int", val |-> v, mem |-> ""]
ScalarArg(v) == [kind |-> "scalar", val |-> v, mem |-> ""]
MemArg(buffer) == [kind |-> "mem", val |-> 0, mem |-> buffer.mem]
NoArg == [kind |-> "none", val |-> 0, mem |-> ""]

\* One entry of the call log
Entry(op, idx, arg, global, local, out) ==
  [op |-> op, idx |-> idx, arg |-> arg, global |-> global, local |-> local, out |-> out]

\* ---------------------------------------------------------------------------
\* The pieces of DoAxpy
\* ---------------------------------------------------------------------------
\* The selection without the test of y_inc
UseFastKernelAnyYInc(c) ==
  /\ x_offset[c] = 0
  /\ x_inc[c] = 1
  /\ y_offset[c] = 0
  /\ IsMultiple(n[c], db_.WGS * db_.WPT * db_.VW)

\* The selection without the test of the length
UseFastKernelAnyLength(c) ==
  /\ x_offset[c] = 0
  /\ x_inc[c] = 1
  /\ y_offset[c] = 0
  /\ y_inc[c] = 1

\* Determines whether or not the fast-version can be used
UseFastKernel(c) ==
  /\ x_offset[c] = 0
  /\ x_inc[c] = 1
  /\ y_offset[c] = 0
  /\ y_inc[c] = 1
  /\ IsMultiple(n[c], db_.WGS * db_.WPT * db_.VW)

KernelName(fast) == IF fast THEN "XaxpyFast" ELSE "Xaxpy"

\* Arguments of the fast kernel, in binding order
FastArgs(c) ==
  << IntArg(StaticCastInt(n[c])),
     ScalarArg(alpha[c]),
     MemArg(x_buffer[c]),
     MemArg(y_buffer[c]) >>

\* The generic list with the stride of x bound before its offset
GenericArgsSwapped(c) ==
  << IntArg(StaticCastInt(n[c])),
     ScalarArg(alpha[c]),
     MemArg(x_buffer[c]),
     IntArg(StaticCastInt(x_inc[c])),
     IntArg(StaticCastInt(x_offset[c])),
     MemArg(y_buffer[c]),
     IntArg(StaticCastInt(y_offset[c])),
     IntArg(StaticCastInt(y_inc[c])) >>

\* Arguments of the generic kernel, in binding order
GenericArgs(c) ==
  << IntArg(StaticCastInt(n[c])),
     ScalarArg(alpha[c]),
     MemArg(x_buffer[c]),
     IntArg(StaticCastInt(x_offset[c])),
     IntArg(StaticCastInt(x_inc[c])),
     MemArg(y_buffer[c]),
     IntArg(StaticCastInt(y_offset[c])),
     IntArg(StaticCastInt(y_inc[c])) >>

\* The eight-argument list bound whatever the kernel
KernelArgsAlwaysGeneric(c) == GenericArgs(c)

KernelArgs(c) == IF use_fast_kernel[c] THEN FastArgs(c) ELSE GenericArgs(c)

\* The fast geometry without the vector width
FastGlobalNoVW(c) == << CeilDiv(n[c], db_.WPT) >>

\* Launch geometry of the fast kernel
FastGlobal(c) == << CeilDiv(n[c], db_.WPT * db_.VW) >>

FastLocal(c) == << db_.WGS >>

\* The generic geometry with n rounded down instead of up
GenericGlobalTruncated(c) ==
  LET n_floored == (n[c] \div (db_.WGS * db_.WPT)) * (db_.WGS * db_.WPT)
  IN << n_floored \div db_.WPT >>

\* Launch geometry of the generic kernel
GenericGlobal(c) ==
  LET n_ceiled == Ceil(n[c], db_.WGS * db_.WPT)
  IN << n_ceiled \div db_.WPT >>

GenericLocal(c) == << db_.WGS >>

\* return s;
Return(c, s) ==
  /\ result' = [result EXCEPT ![c] = s]
  /\ pc' = [pc EXCEPT ![c] = "done"]
  /\ UNCHANGED escaped

\* The exception leaves DoAxpy: no catch-all around the backend calls
Uncaught(c) ==
  /\ escaped' = [escaped EXCEPT ![c] = TRUE]
  /\ pc' = [pc EXCEPT ![c] = "done"]
  /\ UNCHANGED result

\* catch (...) { return StatusCode::kInvalidKernel; }
Caught(c) ==
  /\ result' = [result EXCEPT ![c] = "InvalidKernel"]
  /\ pc' = [pc EXCEPT ![c] = "done"]
  /\ UNCHANGED escaped

Goto(c, label) ==
  /\ pc' = [pc EXCEPT ![c] = label]
  /\ UNCHANGED <<result, escaped>>

Logged(c, e) == log' = [log EXCEPT ![c] = Append(@, e)]

\* ---------------------------------------------------------------------------
\* Steps of one invocation
\* ---------------------------------------------------------------------------
\* DoAxpy without the test of n
CheckDimensionMissing(c) ==
  /\ pc[c] = "Start"
  /\ Goto(c, "TestVectorX")
  /\ UNCHANGED <<inputs, locals, log>>

\* if (n == 0) { return StatusCode::kInvalidDimension; }
CheckDimension(c) ==
  /\ pc[c] = "Start"
  /\ IF n[c] = 0
       THEN Return(c, "InvalidDimension")
       ELSE Goto(c, "TestVectorX")
  /\ UNCHANGED <<inputs, locals, log>>

\* TestVectorX whose status is not looked at
DoTestVectorXUnchecked(c) ==
  /\ pc[c] = "TestVectorX"
  /\ Logged(c, Entry("GetSize", 0, MemArg(x_buffer[c]), <<>>, <<>>, "ok"))
  /\ LET s == TestVector(n[c], x_buffer[c], x_offset[c], x_inc[c],
                         SizeOf(precision[c]), precision[c])
     IN /\ status' = [status EXCEPT ![c] = s]
        /\ Goto(c, "TestVectorY")
  /\ UNCHANGED <<inputs, use_fast_kernel, kernel_name, argidx>>

\* status = TestVectorX(...); if (ErrorIn(status)) { return status; }
DoTestVectorX(c) ==
  /\ pc[c] = "TestVectorX"
  /\ Logged(c, Entry("GetSize", 0, MemArg(x_buffer[c]), <<>>, <<>>, "ok"))
  /\ LET s == TestVector(n[c], x_buffer[c], x_offset[c], x_inc[c],
                         SizeOf(precision[c]), precision[c])
     IN /\ status' = [status EXCEPT ![c] = s]
        /\ IF ErrorIn(s) THEN Return(c, s) ELSE Goto(c, "TestVectorY")
  /\ UNCHANGED <<inputs, use_fast_kernel, kernel_name, argidx>>

\* TestVectorY whose status is not looked at
DoTestVectorYUnchecked(c) ==
  /\ pc[c] = "TestVectorY"
  /\ Logged(c, Entry("GetSize", 0, MemArg(y_buffer[c]), <<>>, <<>>, "ok"))
  /\ LET s == TestVector(n[c], y_buffer[c], y_offset[c], y_inc[c],
                         SizeOf(precision[c]), precision[c])
     IN /\ status' = [status EXCEPT ![c] = s]
        /\ Goto(c, "SelectKernel")
  /\ UNCHANGED <<inputs, use_fast_kernel, kernel_name, argidx>>

\* status = TestVectorY(...); if (ErrorIn(status)) { return status; }
DoTestVectorY(c) ==
  /\ pc[c] = "TestVectorY"
  /\ Logged(c, Entry("GetSize", 0, MemArg(y_buffer[c]), <<>>, <<>>, "ok"))
  /\ LET s == TestVector(n[c], y_buffer[c], y_offset[c], y_inc[c],
                         SizeOf(precision[c]), precision[c])
     IN /\ status' = [status EXCEPT ![c] = s]
        /\ IF ErrorIn(s) THEN Return(c, s) ELSE Goto(c, "SelectKernel")
  /\ UNCHANGED <<inputs, use_fast_kernel, kernel_name, argidx>>

\* use_fast_kernel kept in one place for all invocations instead of a local
SelectKernelShared(c) ==
  /\ pc[c] = "SelectKernel"
  /\ use_fast_kernel' = [d \in Calls |-> UseFastKernel(c)]
  /\ kernel_name' = [kernel_name EXCEPT ![c] = KernelName(UseFastKernel(c))]
  /\ Goto(c, "GetProgramFromCache")
  /\ UNCHANGED <<inputs, status, argidx, log>>

\* use_fast_kernel = ...; kernel_name = ...
SelectKernel(c) ==
  /\ pc[c] = "SelectKernel"
  /\ use_fast_kernel' = [use_fast_kernel EXCEPT ![c] = UseFastKernel(c)]
  /\ kernel_name' = [kernel_name EXCEPT ![c] = KernelName(UseFastKernel(c))]
  /\ Goto(c, "GetProgramFromCache")
  /\ UNCHANGED <<inputs, status, argidx, log>>

\* auto& program = GetProgramFromCache();
GetProgramFromCache(c) ==
  /\ pc[c] = "GetProgramFromCache"
  /\ \E out \in {"ok", "raise"} :
       /\ Logged(c, Entry("GetProgramFromCache", 0, NoArg, <<>>, <<>>, out))
       /\ IF out = "raise" THEN Caught(c) ELSE Goto(c, "Kernel")
  /\ UNCHANGED <<inputs, locals>>

\* The kernel handle launched right after its creation, no argument set
CreateKernelNoArguments(c) ==
  /\ pc[c] = "Kernel"
  /\ \E out \in {"ok", "raise"} :
       /\ Logged(c, Entry("Kernel", 0, [NoArg EXCEPT !.mem = kernel_name[c]], <<>>, <<>>, out))
       /\ IF out = "raise" THEN Caught(c) ELSE Goto(c, "RunKernel")
  /\ UNCHANGED <<inputs, locals>>

\* auto kernel = Kernel(program, kernel_name);
CreateKernel(c) ==
  /\ pc[c] = "Kernel"
  /\ \E out \in {"ok", "raise"} :
       /\ Logged(c, Entry("Kernel", 0, [NoArg EXCEPT !.mem = kernel_name[c]], <<>>, <<>>, out))
       /\ IF out = "raise" THEN Caught(c) ELSE Goto(c, "SetArgument")
  /\ UNCHANGED <<inputs, locals>>

\* kernel.SetArgument(i, ...): the next one of the selected variant's list
SetArgument(c) ==
  /\ pc[c] = "SetArgument"
  /\ argidx[c] < Len(KernelArgs(c))
  /\ \E out \in {"ok", "raise"} :
       /\ Logged(c, Entry("SetArgument", argidx[c], KernelArgs(c)[argidx[c] + 1],
                          <<>>, <<>>, out))
       /\ IF out = "raise"
            THEN Caught(c)
            ELSE IF argidx[c] + 1 = Len(KernelArgs(c))
                   THEN Goto(c, "RunKernel")
                   ELSE Goto(c, "SetArgument")
  /\ argidx' = [argidx EXCEPT ![c] = @ + 1]
  /\ UNCHANGED <<inputs, status, use_fast_kernel, kernel_name>>

\* A failed enqueue issued a second time before giving up
LaunchRetry(c) ==
  /\ pc[c] = "RunKernel"
  /\ LET global == IF use_fast_kernel[c] THEN FastGlobal(c) ELSE GenericGlobal(c)
         local == IF use_fast_kernel[c] THEN FastLocal(c) ELSE GenericLocal(c)
     IN \E out \in EnqueueStatuses \cup {"raise"} :
          /\ Logged(c, Entry("RunKernel", 0, [NoArg EXCEPT !.mem = kernel_name[c]],
                             global, local, out))
          /\ IF out = "raise"
               THEN Caught(c) /\ UNCHANGED status
               ELSE /\ status' = [status EXCEPT ![c] = out]
                    /\ IF ErrorIn(out)
                         THEN IF \A i \in DOMAIN log[c] : log[c][i].op # "RunKernel"
                                THEN Goto(c, "RunKernel")
                                ELSE Return(c, out)
                         ELSE Goto(c, "Finish")
  /\ UNCHANGED <<inputs, use_fast_kernel, kernel_name, argidx>>

\* The enqueue whose status is not looked at
LaunchUnchecked(c) ==
  /\ pc[c] = "RunKernel"
  /\ LET global == IF use_fast_kernel[c] THEN FastGlobal(c) ELSE GenericGlobal(c)
         local == IF use_fast_kernel[c] THEN FastLocal(c) ELSE GenericLocal(c)
     IN \E out \in EnqueueStatuses \cup {"raise"} :
          /\ Logged(c, Entry("RunKernel", 0, [NoArg EXCEPT !.mem = kernel_name[c]],
                             global, local, out))
          /\ IF out = "raise"
               THEN Caught(c) /\ UNCHANGED status
               ELSE /\ status' = [status EXCEPT ![c] = out]
                    /\ Goto(c, "Finish")
  /\ UNCHANGED <<inputs, use_fast_kernel, kernel_name, argidx>>

\* status = RunKernel(kernel, global, local); if (ErrorIn(status)) { return status; }
Launch(c) ==
  /\ pc[c] = "RunKernel"
  /\ LET global == IF use_fast_kernel[c] THEN FastGlobal(c) ELSE GenericGlobal(c)
         local == IF use_fast_kernel[c] THEN FastLocal(c) ELSE GenericLocal(c)
     IN \E out \in EnqueueStatuses \cup {"raise"} :
          /\ Logged(c, Entry("RunKernel", 0, [NoArg EXCEPT !.mem = kernel_name[c]],
                             global, local, out))
          /\ IF out = "raise"
               THEN Caught(c) /\ UNCHANGED status
               ELSE /\ status' = [status EXCEPT ![c] = out]
                    /\ IF ErrorIn(out) THEN Return(c, out) ELSE Goto(c, "Finish")
  /\ UNCHANGED <<inputs, use_fast_kernel, kernel_name, argidx>>

\* Success returned without waiting for the queue
FinishSkipped(c) ==
  /\ pc[c] = "Finish"
  /\ Return(c, "Success")
  /\ UNCHANGED <<inputs, locals, log>>

\* queue_.Finish(); return StatusCode::kSuccess;
Finish(c) ==
  /\ pc[c] = "Finish"
  /\ \E out \in {"ok", "raise"} :
       /\ Logged(c, Entry("Finish", 0, NoArg, <<>>, <<>>, out))
       /\ IF out = "raise" THEN Caught(c) ELSE Return(c, "Success")
  /\ UNCHANGED <<inputs, locals>>

\* DoAxpy from entry to return on full-width arguments, every backend call
\* returning normally: lines 48-106 in one step.  The record keeps what the
\* invocation decided and handed to the backend.
DoAxpyWide ==
  /\ wide.pc = "Start"
  /\ LET T == wide.precision
         sx == TestVectorWide(wide.n, wide.x_elems, wide.x_offset, wide.x_inc, SizeOf(T), T)
         sy == TestVectorWide(wide.n, wide.y_elems, wide.y_offset, wide.y_inc, SizeOf(T), T)
         fast == /\ wide.x_offset = Wide(0) /\ wide.x_inc = 1
                 /\ wide.y_offset = Wide(0) /\ wide.y_inc = 1
                 /\ IsMultipleWide(wide.n, db_.WGS * db_.WPT * db_.VW)
         args == IF fast
                   THEN << IntArg(StaticCastIntWide(wide.n)),
                           ScalarArg(wide.alpha),
                           [kind |-> "mem", val |-> 0, mem |-> "x"],
                           [kind |-> "mem", val |-> 0, mem |-> "y"] >>
                   ELSE << IntArg(StaticCastIntWide(wide.n)),
                           ScalarArg(wide.alpha),
                           [kind |-> "mem", val |-> 0, mem |-> "x"],
                           IntArg(StaticCastIntWide(wide.x_offset)),
                           IntArg(StaticCastInt(wide.x_inc)),
                           [kind |-> "mem", val |-> 0, mem |-> "y"],
                           IntArg(StaticCastIntWide(wide.y_offset)),
                           IntArg(StaticCastInt(wide.y_inc)) >>
         global == IF fast
                     THEN CeilDivWide(wide.n, db_.WPT * db_.VW)
                     ELSE WideDiv(CeilWide(wide.n, db_.WGS * db_.WPT), db_.WPT)
     IN wide' =
          IF wide.n = Wide(0)
            THEN [wide EXCEPT !.pc = "done", !.result = "InvalidDimension"]
          ELSE IF ErrorIn(sx)
            THEN [wide EXCEPT !.pc = "done", !.result = sx]
          ELSE IF ErrorIn(sy)
            THEN [wide EXCEPT !.pc = "done", !.result = sy]
          ELSE [wide EXCEPT !.pc = "done", !.result = "Success",
                            !.use_fast_kernel = fast,
                            !.kernel_name = KernelName(fast),
                            !.args = args,
                            !.global = global,
                            !.local = db_.WGS]
  /\ UNCHANGED <<pc, n, alpha, x_buffer, x_offset, x_inc, y_buffer, y_offset, y_inc,
                 precision, db_, locals, result, escaped, log>>

\* ---------------------------------------------------------------------------
\* Specification
\* ---------------------------------------------------------------------------
Buffers(name) == {[mem |-> name, elems |-> k] : k \in 1..MaxElems}

TuningSets == [WGS : TuneValues, WPT : TuneValues, VW : TuneValues]

\* Argument values per invocation: free for the started ones, d for the rest
ArgsOf(started, S, d) ==
  {f \in [Calls -> S] : \A c \in Calls \ started : f[c] = d}

\* The invocations in `started` are at the entry of DoAxpy with arguments of
\* the caller's choice; the others are never made.
InitCalls(started) ==
  /\ pc = [c \in Calls |-> IF c \in started THEN "Start" ELSE "idle"]
  /\ n \in ArgsOf(started, 0..MaxN, 0)
  /\ alpha \in ArgsOf(started, Alphas, CHOOSE a \in Alphas : TRUE)
  /\ x_buffer \in ArgsOf(started, Buffers("x"), [mem |-> "x", elems |-> 1])
  /\ y_buffer \in ArgsOf(started, Buffers("y"), [mem |-> "y", elems |-> 1])
  /\ x_offset \in ArgsOf(started, Offsets, 0)
  /\ x_inc \in ArgsOf(started, Incs, 1)
  /\ y_offset \in ArgsOf(started, Offsets, 0)
  /\ y_inc \in ArgsOf(started, Incs, 1)
  /\ precision \in ArgsOf(started, Precisions, "float")
  /\ db_ \in TuningSets
  /\ status = [c \in Calls |-> "Success"]
  /\ use_fast_kernel = [c \in Calls |-> FALSE]
  /\ kernel_name = [c \in Calls |-> ""]
  /\ argidx = [c \in Calls |-> 0]
  /\ result = [c \in Calls |-> "none"]
  /\ escaped = [c \in Calls |-> FALSE]
  /\ log = [c \in Calls |-> <<>>]

\* No full-width invocation is made
NoWide ==
  [pc |-> "idle", n |-> Wide(0), alpha |-> 0, precision |-> "float",
   x_elems |-> Wide(0), x_offset |-> Wide(0), x_inc |-> 1,
   y_elems |-> Wide(0), y_offset |-> Wide(0), y_inc |-> 1,
   result |-> "none", use_fast_kernel |-> FALSE, kernel_name |-> "",
   args |-> << >>, global |-> Wide(0), local |-> 0]

Init == InitCalls({1}) /\ wide = NoWide

Next ==
  \E c \in Calls :
    \/ CheckDimension(c)
    \/ DoTestVectorX(c)
    \/ DoTestVectorY(c)
    \/ SelectKernel(c)
    \/ GetProgramFromCache(c)
    \/ CreateKernel(c)
    \/ SetArgument(c)
    \/ Launch(c)
    \/ Finish(c)

Spec == Init /\ [][Next]_vars

\* The calling thread runs DoAxpy to its return: no statement waits for
\* anything but the backend call it makes, and that call returns or raises.
\* The scalar and the element type take no part in the control flow; the
\* progress of an invocation is checked with one value of each.
FairInit ==
  /\ Init
  /\ \A c \in Calls : alpha[c] = (CHOOSE a \in Alphas : TRUE) /\ precision[c] = "float"

FairSpec == FairInit /\ [][Next]_vars /\ WF_vars(Next)

\* Two invocations on their own routine objects and queues, running at the
\* same time on one tuning parameter set.  Each has its own scalar and element
\* type, buffers of MaxElems elements, zero offsets and a unit stride of y;
\* the length and the stride of x are free.
ConcInit ==
  /\ alpha = [c \in Calls |-> IF c = 1 THEN 2 ELSE 3]
  /\ precision = [c \in Calls |-> IF c = 1 THEN "float" ELSE "double"]
  /\ x_buffer = [c \in Calls |-> [mem |-> "x", elems |-> MaxElems]]
  /\ y_buffer = [c \in Calls |-> [mem |-> "y", elems |-> MaxElems]]
  /\ x_offset = [c \in Calls |-> 0]
  /\ y_offset = [c \in Calls |-> 0]
  /\ y_inc = [c \in Calls |-> 1]
  /\ InitCalls(Calls)
  /\ wide = NoWide

ConcSpec == ConcInit /\ [][Next]_vars

\* Lengths, offsets and capacities on both sides of 2^31 and of 2^32
WideLengths ==
  {Wide(k) : k \in 0..MaxN}
    \cup {<< Limb \div 2 - 1, Limb - 1 >>, << Limb \div 2, 0 >>, << Limb \div 2, 1 >>,
          << Limb, 0 >>, << Limb, 2 >>}

WideOffsets == {Wide(0), << Limb \div 2, 0 >>}

WideCapacities == {Wide(MaxElems), << Limb \div 2, 0 >>, << 2 * Limb, 4 >>}

\* One invocation with full-width arguments, at the entry of DoAxpy
WideInit ==
  /\ InitCalls({})
  /\ wide \in {[NoWide EXCEPT !.pc = "Start", !.n = len, !.alpha = a, !.precision = T,
                               !.x_elems = xe, !.x_offset = xo, !.x_inc = xi,
                               !.y_elems = ye] :
                  len \in WideLengths, a \in {CHOOSE a \in Alphas : TRUE}, T \in Precisions,
                  xe \in WideCapacities, xo \in WideOffsets, xi \in Incs,
                  ye \in WideCapacities}

WideNext == DoAxpyWide

WideSpec == WideInit /\ [][WideNext]_vars

\* ---------------------------------------------------------------------------
\* Properties
\* ---------------------------------------------------------------------------
Started(c) == pc[c] # "idle"
Done(c) == pc[c] = "done"

\* The backend operations of the launch: everything but the buffer-size query
LaunchOps == {"GetProgramFromCache", "Kernel", "SetArgument", "RunKernel", "Finish"}

\* Positions of the log of c whose operation is in ops
Where(c, ops) == {i \in DOMAIN log[c] : log[c][i].op \in ops}

\* The largest element index the operand touches lies outside the buffer
Exceeds(buffer, offset, inc, len) == offset + (len - 1) * inc > buffer.elems - 1
ExceedsX(c) == Exceeds(x_buffer[c], x_offset[c], x_inc[c], n[c])
ExceedsY(c) == Exceeds(y_buffer[c], y_offset[c], y_inc[c], n[c])

\* C1: an invocation with n = 0 makes no backend call at all, never gets past
\* the entry test, and what it returns is InvalidDimension.
C1_ZeroLengthNoBackend ==
  \A c \in Calls :
    (Started(c) /\ n[c] = 0) =>
      /\ log[c] = <<>>
      /\ pc[c] \in {"Start", "done"}
      /\ ~escaped[c]
      /\ Done(c) => result[c] = "InvalidDimension"

C1_Witness ==
  \E c \in Calls : n[c] = 0 /\ Done(c) /\ result[c] = "InvalidDimension"

\* C2: with n > 0 and x or y reaching beyond its buffer, the invocation makes
\* no launch-related backend call, stays within validation, and returns
\* InvalidBufferSize.
C2_OutOfRangeRejected ==
  \A c \in Calls :
    (Started(c) /\ n[c] > 0 /\ (ExceedsX(c) \/ ExceedsY(c))) =>
      /\ Where(c, LaunchOps) = {}
      /\ pc[c] \in {"Start", "TestVectorX", "TestVectorY", "done"}
      /\ kernel_name[c] = ""
      /\ ~escaped[c]
      /\ Done(c) => result[c] = "InvalidBufferSize"

C2_Witness ==
  \E c \in Calls :
    /\ n[c] > 0 /\ ~ExceedsX(c) /\ ExceedsY(c)
    /\ Done(c) /\ result[c] = "InvalidBufferSize"
    /\ Len(log[c]) = 2

\* The canonical layout: zero offsets, unit strides, n a multiple of the tile
FastCondition(c) ==
  /\ x_offset[c] = 0 /\ x_inc[c] = 1
  /\ y_offset[c] = 0 /\ y_inc[c] = 1
  /\ n[c] % (db_.WGS * db_.WPT * db_.VW) = 0

\* The invocation is past the kernel selection
Selected(c) == pc[c] \in {"GetProgramFromCache", "Kernel", "SetArgument", "RunKernel", "Finish"}
               \/ (Done(c) /\ Where(c, LaunchOps) # {})

\* C3: once the selector has run, the kernel is "XaxpyFast" exactly when both
\* offsets are 0, both strides are 1 and n is a multiple of WGS*WPT*VW, and
\* "Xaxpy" in every other case; the handle is created under that name.
C3_FastIffCanonical ==
  \A c \in Calls :
    Selected(c) =>
      /\ use_fast_kernel[c] = FastCondition(c)
      /\ kernel_name[c] = IF FastCondition(c) THEN "XaxpyFast" ELSE "Xaxpy"
      /\ \A i \in Where(c, {"Kernel", "RunKernel"}) : log[c][i].arg.mem = kernel_name[c]

C3_Witness ==
  \E c \in Calls :
    /\ Selected(c) /\ kernel_name[c] = "XaxpyFast"
    /\ n[c] = 2 /\ db_.WGS * db_.WPT * db_.VW = 2
    /\ Where(c, {"Kernel"}) # {}

\* C4: a backend call that raises is the last call of its invocation; the
\* invocation has then returned InvalidKernel and no exception has left DoAxpy.
C4_RaiseBecomesInvalidKernel ==
  \A c \in Calls :
    /\ ~escaped[c]
    /\ \A i \in DOMAIN log[c] :
         log[c][i].out = "raise" =>
           /\ i = Len(log[c])
           /\ Done(c)
           /\ result[c] = "InvalidKernel"

C4_Witness ==
  \E c \in Calls :
    /\ Done(c) /\ result[c] = "InvalidKernel" /\ kernel_name[c] = "Xaxpy"
    /\ log[c][Len(log[c])].op = "SetArgument"
    /\ log[c][Len(log[c])].idx = 7
    /\ log[c][Len(log[c])].out = "raise"

\* C5: an enqueue that reports a fault through its returned status makes the
\* invocation return InvalidKernel, and every returned status is one of
\* Success, InvalidDimension, InvalidBufferSize, InvalidKernel.
C5_EnqueueErrorIsInvalidKernel ==
  \A c \in Calls :
    /\ \A i \in Where(c, {"RunKernel"}) :
         log[c][i].out \notin {"Success", "raise"} =>
           (Done(c) /\ result[c] = "InvalidKernel")
    /\ result[c] \in {"none", "Success", "InvalidDimension", "InvalidBufferSize",
                      "InvalidKernel"}

\* C6: Success is returned only by an invocation whose operands both lie
\* within their buffers and whose backend calls were, in this order and all
\* without error: the two size queries, the program lookup, the kernel
\* creation, the four or eight argument bindings, the enqueue, and last the
\* wait on the queue.
C6_SuccessOnlyAfterDrain ==
  \A c \in Calls :
    result[c] = "Success" =>
      LET L == log[c]
          k == Len(L)
      IN /\ Done(c)
         /\ n[c] > 0 /\ ~ExceedsX(c) /\ ~ExceedsY(c)
         /\ k \in {10, 14}
         /\ L[1].op = "GetSize" /\ L[2].op = "GetSize"
         /\ L[3].op = "GetProgramFromCache"
         /\ L[4].op = "Kernel"
         /\ \A i \in 5..(k - 2) : L[i].op = "SetArgument"
         /\ \A i \in 1..(k - 2) : L[i].out = "ok"
         /\ L[k - 1].op = "RunKernel" /\ L[k - 1].out = "Success"
         /\ L[k].op = "Finish" /\ L[k].out = "ok"

C6_Witness ==
  \E c \in Calls : Done(c) /\ result[c] = "Success" /\ Len(log[c]) = 14

\* C7: every enqueue of "XaxpyFast" has a one-dimensional global size g with
\* g = ceil(n / (WPT*VW)), that is (g-1)*WPT*VW < n <= g*WPT*VW, and the
\* local size WGS.
C7_FastGeometry ==
  \A c \in Calls :
    \A i \in Where(c, {"RunKernel"}) :
      log[c][i].arg.mem = "XaxpyFast" =>
        LET e == log[c][i]
            k == db_.WPT * db_.VW
        IN /\ Len(e.global) = 1
           /\ e.global[1] * k >= n[c]
           /\ (e.global[1] - 1) * k < n[c]
           /\ e.local = << db_.WGS >>

C7_Witness ==
  \E c \in Calls :
    \E i \in Where(c, {"RunKernel"}) :
      /\ log[c][i].arg.mem = "XaxpyFast"
      /\ n[c] = 2 /\ db_.WGS = 1 /\ db_.WPT = 1 /\ db_.VW = 2
      /\ log[c][i].global = << 1 >>

\* C8: every enqueue of "Xaxpy" has the one-dimensional global size
\* n_ceiled / WPT, where n_ceiled is the smallest multiple of WGS*WPT that is
\* >= n, and the local size WGS; so global * WPT >= n.
C8_GenericGeometry ==
  \A c \in Calls :
    \A i \in Where(c, {"RunKernel"}) :
      log[c][i].arg.mem = "Xaxpy" =>
        LET e == log[c][i]
            tile == db_.WGS * db_.WPT
        IN /\ Len(e.global) = 1
           /\ \E n_ceiled \in n[c]..(n[c] + tile - 1) :
                /\ n_ceiled % tile = 0
                /\ e.global[1] * db_.WPT = n_ceiled
           /\ e.global[1] * db_.WPT >= n[c]
           /\ e.local = << db_.WGS >>

C8_Witness ==
  \E c \in Calls :
    \E i \in Where(c, {"RunKernel"}) :
      /\ log[c][i].arg.mem = "Xaxpy"
      /\ n[c] = 3 /\ db_.WGS = 2 /\ db_.WPT = 2
      /\ log[c][i].global = << 2 >>

\* The argument layouts of the two kernels, by position
FastLayout(c) ==
  << [kind |-> "int", val |-> n[c], mem |-> ""],
     [kind |-> "scalar", val |-> alpha[c], mem |-> ""],
     [kind |-> "mem", val |-> 0, mem |-> "x"],
     [kind |-> "mem", val |-> 0, mem |-> "y"] >>

GenericLayout(c) ==
  << [kind |-> "int", val |-> n[c], mem |-> ""],
     [kind |-> "scalar", val |-> alpha[c], mem |-> ""],
     [kind |-> "mem", val |-> 0, mem |-> "x"],
     [kind |-> "int", val |-> x_offset[c], mem |-> ""],
     [kind |-> "int", val |-> x_inc[c], mem |-> ""],
     [kind |-> "mem", val |-> 0, mem |-> "y"],
     [kind |-> "int", val |-> y_offset[c], mem |-> ""],
     [kind |-> "int", val |-> y_inc[c], mem |-> ""] >>

\* C9: the SetArgument calls of an invocation carry the indices 0, 1, 2, ...
\* in this order, each once, with the values of the selected variant's
\* layout (four for "XaxpyFast", eight for "Xaxpy"); an enqueue comes only
\* after the whole layout has been bound.
C9_ArgumentOrder ==
  \A c \in Calls :
    LET S == Where(c, {"SetArgument"})
        want == IF kernel_name[c] = "XaxpyFast" THEN FastLayout(c) ELSE GenericLayout(c)
    IN /\ S # {} => kernel_name[c] \in {"XaxpyFast", "Xaxpy"}
       /\ Cardinality(S) <= Len(want)
       /\ \A i \in S :
            /\ log[c][i].idx = Cardinality({j \in S : j < i})
            /\ log[c][i].idx < Len(want)
            /\ log[c][i].arg = want[log[c][i].idx + 1]
       /\ \A i \in Where(c, {"RunKernel"}) :
            /\ \A j \in S : j < i /\ log[c][j].out = "ok"
            /\ Cardinality(S) = Len(want)

C9_Witness ==
  \E c \in Calls :
    /\ kernel_name[c] = "Xaxpy"
    /\ Where(c, {"RunKernel"}) # {}
    /\ Cardinality(Where(c, {"SetArgument"})) = 8
    /\ x_offset[c] = 1 /\ x_inc[c] = 2 /\ y_offset[c] = 0 /\ y_inc[c] = 1

\* C10: the buffer of x is validated first and that of y second, each at most
\* once; y is validated only after x passed; when x fails the invocation
\* returns x's status with y never looked at; and the selector and every
\* launch-related call come after both validations passed.
C10_ValidationOrder ==
  \A c \in Calls :
    LET GX == {i \in Where(c, {"GetSize"}) : log[c][i].arg.mem = x_buffer[c].mem}
        GY == {i \in Where(c, {"GetSize"}) : log[c][i].arg.mem = y_buffer[c].mem}
    IN /\ GX \subseteq {1}
       /\ GY \subseteq {2}
       /\ GX \cup GY = Where(c, {"GetSize"})
       /\ GY # {} => (GX # {} /\ ~ExceedsX(c))
       /\ (Started(c) /\ n[c] > 0 /\ ExceedsX(c)) =>
            /\ GY = {}
            /\ Done(c) => /\ result[c] = "InvalidBufferSize"
                          /\ result[c] = status[c]
                          /\ Len(log[c]) = 1
       /\ (kernel_name[c] # "" \/ Where(c, LaunchOps) # {}) =>
            /\ GX = {1} /\ GY = {2}
            /\ ~ExceedsX(c) /\ ~ExceedsY(c)
            /\ Where(c, LaunchOps) \subseteq 3..Len(log[c])

C10_Witness ==
  \E c \in Calls :
    /\ n[c] > 0 /\ ExceedsX(c) /\ ExceedsY(c)
    /\ Done(c) /\ result[c] = "InvalidBufferSize"
    /\ Len(log[c]) = 1 /\ log[c][1].arg.mem = "x"

\* The stage of an invocation, read off what it has done so far:
\* 0 Start, 1 Validated, 2 KernelSelected, 3 ArgumentsBound, 4 Launched,
\* 5 Finished, 6 Errored
Stage(c) ==
  IF Done(c) THEN (IF result[c] = "Success" /\ ~escaped[c] THEN 5 ELSE 6)
  ELSE IF Where(c, {"RunKernel"}) # {} THEN 4
  ELSE IF /\ kernel_name[c] # ""
          /\ Cardinality({i \in Where(c, {"SetArgument"}) : log[c][i].out = "ok"})
               = (IF kernel_name[c] = "XaxpyFast" THEN 4 ELSE 8)
       THEN 3
  ELSE IF kernel_name[c] # "" THEN 2
  ELSE IF Len(log[c]) = 2 THEN 1
  ELSE 0

\* Stage as it is after the step
StageNext(c) ==
  IF pc'[c] = "done" THEN (IF result'[c] = "Success" /\ ~escaped'[c] THEN 5 ELSE 6)
  ELSE IF {i \in DOMAIN log'[c] : log'[c][i].op = "RunKernel"} # {} THEN 4
  ELSE IF /\ kernel_name'[c] # ""
          /\ Cardinality({i \in DOMAIN log'[c] :
                            log'[c][i].op = "SetArgument" /\ log'[c][i].out = "ok"})
               = (IF kernel_name'[c] = "XaxpyFast" THEN 4 ELSE 8)
       THEN 3
  ELSE IF kernel_name'[c] # "" THEN 2
  ELSE IF Len(log'[c]) = 2 THEN 1
  ELSE 0

\* C11: every step of an invocation keeps its stage, moves it to the next
\* stage of Start, Validated, KernelSelected, ArgumentsBound, Launched,
\* Finished, or moves it from a non-terminal stage to Errored; Finished and
\* Errored are never left; and every started invocation ends in one of them.
C11_StageOrder ==
  /\ [][\A c \in Calls :
          \/ StageNext(c) = Stage(c)
          \/ Stage(c) <= 4 /\ StageNext(c) = Stage(c) + 1
          \/ Stage(c) <= 4 /\ StageNext(c) = 6]_vars
  /\ \A c \in Calls : Started(c) ~> (Stage(c) \in {5, 6})

C11_Witness ==
  \E c \in Calls : Stage(c) = 5 /\ kernel_name[c] = "Xaxpy" /\ Len(log[c]) = 14

\* C12: an invocation looks the program up at most once, creates at most one
\* kernel handle and issues at most one enqueue; a backend call that raised,
\* or an enqueue that reported an error, is the last backend call it makes.
C12_NoRetries ==
  \A c \in Calls :
    /\ Cardinality(Where(c, {"GetProgramFromCache"})) <= 1
    /\ Cardinality(Where(c, {"Kernel"})) <= 1
    /\ Cardinality(Where(c, {"RunKernel"})) <= 1
    /\ \A i \in DOMAIN log[c] :
         log[c][i].out \notin {"ok", "Success"} =>
           /\ i = Len(log[c])
           /\ Done(c)

C12_Witness ==
  \E c \in Calls :
    /\ Done(c)
    /\ Cardinality(Where(c, {"RunKernel"})) = 1
    /\ log[c][Len(log[c])].op = "RunKernel"
    /\ log[c][Len(log[c])].out = "KernelLaunchError"

\* Everything an invocation owns: its position, locals, result and call log
Own(c) ==
  << pc[c], status[c], use_fast_kernel[c], kernel_name[c], argidx[c],
     result[c], escaped[c], log[c] >>

OwnNext(c) ==
  << pc'[c], status'[c], use_fast_kernel'[c], kernel_name'[c], argidx'[c],
     result'[c], escaped'[c], log'[c] >>

\* The global size of the launch, from the arguments alone
LoneGlobal(c) ==
  IF FastCondition(c)
    THEN n[c] \div (db_.WPT * db_.VW)
    ELSE ((n[c] + db_.WGS * db_.WPT - 1) \div (db_.WGS * db_.WPT)) * db_.WGS

\* The backend calls an invocation makes when it runs alone and no backend
\* call fails, from its arguments and the tuning parameters alone
LoneCalls(c) ==
  LET name == IF FastCondition(c) THEN "XaxpyFast" ELSE "Xaxpy"
      layout == IF FastCondition(c) THEN FastLayout(c) ELSE GenericLayout(c)
      call(op, idx, arg, global, local) ==
        [op |-> op, idx |-> idx, arg |-> arg, global |-> global, local |-> local,
         out |-> "ok"]
      none == [kind |-> "none", val |-> 0, mem |-> ""]
      qx == call("GetSize", 0, [kind |-> "mem", val |-> 0, mem |-> "x"], <<>>, <<>>)
      qy == call("GetSize", 0, [kind |-> "mem", val |-> 0, mem |-> "y"], <<>>, <<>>)
  IN IF n[c] = 0 THEN << >>
     ELSE IF ExceedsX(c) THEN << qx >>
     ELSE IF ExceedsY(c) THEN << qx, qy >>
     ELSE << qx, qy,
             call("GetProgramFromCache", 0, none, <<>>, <<>>),
             call("Kernel", 0, [none EXCEPT !.mem = name], <<>>, <<>>) >>
          \o [i \in 1..Len(layout) |-> call("SetArgument", i - 1, layout[i], <<>>, <<>>)]
          \o << call("RunKernel", 0, [none EXCEPT !.mem = name],
                     << LoneGlobal(c) >>, << db_.WGS >>),
                call("Finish", 0, none, <<>>, <<>>) >>

\* What the invocation has done and returned is what it does alone
AsAlone(c) ==
  LET L == log[c]
      k == Len(L)
      lone == LoneCalls(c)
      last == L[k].out
  IN /\ k <= Len(lone)
     /\ \A i \in 1..k : [L[i] EXCEPT !.out = "ok"] = lone[i]
     /\ \A i \in 1..(k - 1) : L[i].out \in {"ok", "Success"}
     /\ ~escaped[c]
     /\ IF Done(c)
          THEN result[c] =
                 IF n[c] = 0 THEN "InvalidDimension"
                 ELSE IF ExceedsX(c) \/ ExceedsY(c) THEN "InvalidBufferSize"
                 ELSE IF last = "raise" THEN "InvalidKernel"
                 ELSE IF L[k].op = "RunKernel" THEN last
                 ELSE "Success"
          ELSE /\ result[c] = "none"
               /\ k > 0 => last \in {"ok", "Success"}
     /\ (Done(c) /\ result[c] = "Success") => k = Len(lone)
     /\ kernel_name[c] # "" =>
          /\ use_fast_kernel[c] = FastCondition(c)
          /\ kernel_name[c] = IF FastCondition(c) THEN "XaxpyFast" ELSE "Xaxpy"

\* C13: with two invocations running at the same time, a step changes what
\* one invocation owns and nothing else: not what the other owns, not the
\* arguments, not the tuning parameters; and in every state each invocation's
\* kernel, bound arguments, geometry and status are those of a lone run with
\* its arguments.
C13_Independent ==
  /\ [][/\ \A c, d \in Calls : (OwnNext(c) # Own(c) /\ d # c) => OwnNext(d) = Own(d)
        /\ UNCHANGED inputs]_vars
  /\ [](\A c \in Calls : AsAlone(c))

C13_Witness ==
  /\ Done(1) /\ result[1] = "Success" /\ kernel_name[1] = "XaxpyFast"
  /\ pc[2] = "SetArgument" /\ argidx[2] = 3 /\ kernel_name[2] = "Xaxpy"

\* The values bound by the SetArgument calls of c, in call order
BoundArgs(c) ==
  LET S == Where(c, {"SetArgument"})
      at(j) == CHOOSE i \in S : Cardinality({h \in S : h < i}) = j - 1
  IN [j \in 1..Cardinality(S) |-> log[c][at(j)].arg]

\* C14: every enqueue launches the kernel that was created, and name,
\* arguments and geometry are of one variant: "XaxpyFast" goes with the four
\* arguments, the global size n / (WPT*VW) and the canonical layout; "Xaxpy"
\* goes with the eight arguments and a global size that is a multiple of WGS
\* covering n_ceiled = global * WPT.
C14_OneVariant ==
  \A c \in Calls :
    \A i \in Where(c, {"RunKernel"}) :
      LET e == log[c][i]
          name == e.arg.mem
      IN /\ name \in {"XaxpyFast", "Xaxpy"}
         /\ \A j \in Where(c, {"Kernel"}) : log[c][j].arg.mem = name
         /\ name = "XaxpyFast" =>
              /\ FastCondition(c)
              /\ BoundArgs(c) = FastLayout(c)
              /\ e.global = << n[c] \div (db_.WPT * db_.VW) >>
              /\ e.global[1] * db_.WPT * db_.VW = n[c]
         /\ name = "Xaxpy" =>
              /\ ~FastCondition(c)
              /\ BoundArgs(c) = GenericLayout(c)
              /\ e.global[1] % db_.WGS = 0
              /\ e.global[1] * db_.WPT >= n[c]
              /\ e.global[1] * db_.WPT < n[c] + db_.WGS * db_.WPT
         /\ e.local = << db_.WGS >>

C14_Witness ==
  \E c \in Calls :
    \E i \in Where(c, {"RunKernel"}) :
      /\ log[c][i].arg.mem = "XaxpyFast"
      /\ Len(BoundArgs(c)) = 4
      /\ n[c] = 2 /\ db_.WGS = 2 /\ db_.WPT = 1 /\ db_.VW = 1
      /\ log[c][i].global = << 2 >>

\* C15: the global size of every enqueue is a positive multiple of the local
\* size WGS; the fast kernel's threads cover the vector exactly,
\* global * WPT * VW = n, and the generic kernel's cover it with less than one
\* workgroup to spare, n <= global * WPT < n + WGS * WPT.
C15_GlobalCoversVector ==
  \A c \in Calls :
    \A i \in Where(c, {"RunKernel"}) :
      LET g == log[c][i].global[1]
      IN /\ Len(log[c][i].global) = 1
         /\ log[c][i].local = << db_.WGS >>
         /\ g > 0
         /\ g % db_.WGS = 0
         /\ IF log[c][i].arg.mem = "XaxpyFast"
              THEN g * db_.WPT * db_.VW = n[c]
              ELSE n[c] <= g * db_.WPT /\ g * db_.WPT < n[c] + db_.WGS * db_.WPT

C15_Witness ==
  \E c \in Calls :
    \E i \in Where(c, {"RunKernel"}) :
      /\ log[c][i].arg.mem = "Xaxpy"
      /\ n[c] = 3 /\ db_.WGS = 2 /\ db_.WPT = 1
      /\ log[c][i].global = << 4 >>

\* C16: an enqueue that returns an error status is the last backend call of
\* its invocation, which has then returned that very status; the queue is
\* waited for at most once, and only right after an enqueue that returned
\* Success.
C16_NoWaitAfterFailedEnqueue ==
  \A c \in Calls :
    /\ \A i \in Where(c, {"RunKernel"}) :
         log[c][i].out \notin {"Success", "raise"} =>
           /\ i = Len(log[c])
           /\ Done(c)
           /\ result[c] = log[c][i].out
           /\ Where(c, {"Finish"}) = {}
    /\ Cardinality(Where(c, {"Finish"})) <= 1
    /\ \A i \in Where(c, {"Finish"}) :
         /\ i > 1
         /\ log[c][i - 1].op = "RunKernel"
         /\ log[c][i - 1].out = "Success"

C16_Witness ==
  \E c \in Calls :
    /\ Done(c) /\ result[c] = "InvalidBufferSize"
    /\ log[c][Len(log[c])].op = "RunKernel"
    /\ log[c][Len(log[c])].out = "InvalidBufferSize"

\* C17: when the arguments are bound, argument 0 is the length n that was
\* validated and that chose kernel and geometry, and the offsets and strides
\* bound for the generic kernel are the caller's; each bound integer is the
\* full-width value narrowed to 32 bits.
C17_BoundLengthIsValidatedLength ==
  (wide.pc = "done" /\ wide.args # << >>) =>
    /\ wide.args[1].val = StaticCastIntWide(wide.n)
    /\ wide.args[1].val >= 0 /\ Wide(wide.args[1].val) = wide.n
    /\ ~wide.use_fast_kernel =>
         /\ wide.args[4].val >= 0 /\ Wide(wide.args[4].val) = wide.x_offset
         /\ wide.args[5].val = wide.x_inc
         /\ wide.args[7].val >= 0 /\ Wide(wide.args[7].val) = wide.y_offset
         /\ wide.args[8].val = wide.y_inc

====
